---- MODULE Spec2Model ----
(***************************************************************************)
(* Model of src/src/main.rs: the dungeon generator (make_map and its       *)
(* helpers), entity placement (place_objects), viewer movement (move_by,   *)
(* handle_keys) and the per-tick visibility update (main, render_all).     *)
(*                                                                         *)
(* The grid and the room sizes are scaled down from the values of the      *)
(* source (80 x 45 map, rooms of 6..10, 30 attempts, torch radius 10) so   *)
(* that the reachable states can be enumerated; the code is otherwise      *)
(* translated as written.                                                  *)
(***************************************************************************)
EXTENDS Integers, Sequences, FiniteSets

\* ---------------------------------------------------------------- bounds
\* main.rs:16  const MAP_WIDTH: i32 = 80   (scaled)
MAP_WIDTH == 6
\* main.rs:17  const MAP_HEIGHT: i32 = 45  (scaled)
MAP_HEIGHT == 6
\* main.rs:36  const ROOM_MAX_SIZE: i32 = 10  (scaled)
ROOM_MAX_SIZE == 3
\* main.rs:37  const ROOM_MIN_SIZE: i32 = 6   (scaled)
ROOM_MIN_SIZE == 2
\* main.rs:38  const MAX_ROOMS: i32 = 30  (scaled); the attempt budget N of
\* one generation run is drawn from 0..MAX_ROOMS
MAX_ROOMS == 3
\* main.rs:42  const TORCH_RADIUS: i32 = 10  (scaled)
TORCH_RADIUS == 2
\* the length up to which the objects Vec is followed: the player and
\* MaxObjects - 1 monsters
MaxObjects == 2
\* the same length for the runs that follow make_map alone with at most
\* MaxPlaceRooms loop iterations: the player and MAX_ROOM_MONSTERS monsters
MaxPlaced == 4
MaxPlaceRooms == 2
\* the number of main-loop iterations followed after generation
MaxTicks == 3

\* ------------------------------------------------------ program constants
PLAYER == 0
MAX_ROOM_MONSTERS == 3
FOV_LIGHT_WALLS == TRUE

XS == 0 .. (MAP_WIDTH - 1)
YS == 0 .. (MAP_HEIGHT - 1)

VARIABLES
    pc,            \* position in main / make_map
    budget,        \* N: the number of iterations of make_map's loop
    attempt,       \* the loop counter of make_map
    map,           \* map[x][y]: Tile
    rooms,         \* make_map's accepted rooms, in order
    new_room,      \* the accepted candidate of the running iteration (NoRoom
                   \* between iterations, where the local is out of scope)
    objects,       \* objects[1] is the source's objects[PLAYER]
    tunnels,       \* history: the tiles carved by create_h_tunnel / create_v_tunnel
    previous_player_position,
    fov,           \* tcod.fov: the FovMap
    fov_recompute, \* the flag main passed to the latest render_all
    fov_origin,    \* history: the origin of the latest compute_fov call
    compute_called,\* history: whether the latest render_all called compute_fov
    tick_pos,      \* history: the player's position at the latest render_all
    tick,          \* the number of render_all calls so far
    last_index,    \* the index pair move_by last used on game.map
    seen           \* history: the tiles is_in_fov has reported visible to render_all

vars == <<pc, budget, attempt, map, rooms, new_room, objects, tunnels,
          previous_player_position, fov, fov_recompute, fov_origin,
          compute_called, tick_pos, tick, last_index, seen>>

\* ------------------------------------------------------------------ Tile
\* a floor tile that still blocks sight
TileEmptyOpaque == [blocked |-> FALSE, block_sight |-> TRUE, explored |-> FALSE]

TileEmpty == [blocked |-> FALSE, block_sight |-> FALSE, explored |-> FALSE]

TileWall == [blocked |-> TRUE, block_sight |-> TRUE, explored |-> FALSE]

\* ------------------------------------------------------------------ Rect
RectNew(x, y, w, h) == [x1 |-> x, y1 |-> y, x2 |-> x + w, y2 |-> y + h]

\* i32 division truncates toward zero
TruncDiv(a, b) == IF a >= 0 THEN a \div b ELSE -((-a) \div b)

\* the midpoint rounded up
CenterRoundUp(r) == <<(r.x1 + r.x2 + 1) \div 2, (r.y1 + r.y2 + 1) \div 2>>

Center(r) == <<TruncDiv(r.x1 + r.x2, 2), TruncDiv(r.y1 + r.y2, 2)>>

\* the test with open intervals: rectangles that share an edge pass
IntersectsWithOpen(self, other) ==
    /\ self.x1 < other.x2
    /\ self.x2 > other.x1
    /\ self.y1 < other.y2
    /\ self.y2 > other.y1

IntersectsWith(self, other) ==
    /\ self.x1 <= other.x2
    /\ self.x2 >= other.x1
    /\ self.y1 <= other.y2
    /\ self.y2 >= other.y1

\* ---------------------------------------------------------------- Object
ObjectNew(x, y, char, name, color, blocks) ==
    [x |-> x, y |-> y, char |-> char, name |-> name, color |-> color,
     blocks |-> blocks, alive |-> FALSE]

Pos(o) == <<o.x, o.y>>

SetPos(o, x, y) == [o EXCEPT !.x = x, !.y = y]

Min(a, b) == IF a <= b THEN a ELSE b

Max(a, b) == IF a >= b THEN a ELSE b

\* ------------------------------------------------------------- carving
\* the carving started at x1 and y1
CreateRoomFromEdge(room, m) ==
    [x \in XS |-> [y \in YS |->
        IF /\ room.x1 <= x /\ x < room.x2
           /\ room.y1 <= y /\ y < room.y2
        THEN TileEmpty ELSE m[x][y]]]

\* the carving with the border included
CreateRoomClosed(room, m) ==
    [x \in XS |-> [y \in YS |->
        IF /\ room.x1 <= x /\ x <= room.x2
           /\ room.y1 <= y /\ y <= room.y2
        THEN TileEmpty ELSE m[x][y]]]

CreateRoom(room, m) ==
    [x \in XS |-> [y \in YS |->
        IF /\ room.x1 + 1 <= x /\ x < room.x2
           /\ room.y1 + 1 <= y /\ y < room.y2
        THEN TileEmpty ELSE m[x][y]]]

\* the range x1..x2 without min and max: empty when x1 > x2
HTunnelTilesOrdered(x1, x2, y) == {<<x, y>> : x \in x1 .. x2}

HTunnelTiles(x1, x2, y) == {<<x, y>> : x \in Min(x1, x2) .. Max(x1, x2)}

VTunnelTiles(y1, y2, x) == {<<x, y>> : y \in Min(y1, y2) .. Max(y1, y2)}

Carve(tiles, m) ==
    [x \in XS |-> [y \in YS |-> IF <<x, y>> \in tiles THEN TileEmpty ELSE m[x][y]]]

CreateHTunnel(x1, x2, y, m) == Carve(HTunnelTiles(x1, x2, y), m)

CreateVTunnel(y1, y2, x, m) == Carve(VTunnelTiles(y1, y2, x), m)

\* the tiles of the dogleg between prev and new, by the coin of rand::random()
DoglegTiles(prev, new, coin) ==
    IF coin
    THEN HTunnelTiles(prev[1], new[1], prev[2]) \cup VTunnelTiles(prev[2], new[2], new[1])
    ELSE VTunnelTiles(prev[2], new[2], prev[1]) \cup HTunnelTiles(prev[1], new[1], new[2])

\* both tunnels on the previous room's coordinates: the corner is missed
ConnectPrevOnly(prev, new, coin, m) ==
    IF coin
    THEN CreateVTunnel(prev[2], new[2], prev[1], CreateHTunnel(prev[1], new[1], prev[2], m))
    ELSE CreateHTunnel(prev[1], new[1], prev[2], CreateVTunnel(prev[2], new[2], prev[1], m))

Connect(prev, new, coin, m) ==
    IF coin
    THEN CreateVTunnel(prev[2], new[2], new[1], CreateHTunnel(prev[1], new[1], prev[2], m))
    ELSE CreateHTunnel(prev[1], new[1], new[2], CreateVTunnel(prev[2], new[2], prev[1], m))

\* ------------------------------------------------------------ make_map
NoRoom == [x1 |-> -1, y1 |-> -1, x2 |-> -1, y2 |-> -1]

Sizes == ROOM_MIN_SIZE .. ROOM_MAX_SIZE

\* all() in the place of any()
FailedAll(room, rs) == \A i \in 1 .. Len(rs) : IntersectsWith(room, rs[i])

\* lines 319-321: rooms.iter().any(|other_room| new_room.intersects_with(other_room))
Failed(room, rs) == \E i \in 1 .. Len(rs) : IntersectsWith(room, rs[i])

\* the loop left one iteration early
InLoopShort(i, n) == i + 1 < n

\* the loop run once more
InLoopInclusive(i, n) == i <= n

\* line 308: for _ in 0..N, with i iterations completed
InLoop(i, n) == i < n

\* main up to the call of make_map, and make_map up to its loop. The loop
\* bound of line 308 is the constant MAX_ROOMS; it is read here as the
\* generator's parameter N and drawn from 0..MAX_ROOMS.
Init ==
    /\ pc = "loop"
    /\ budget \in 0 .. MAX_ROOMS
    /\ attempt = 0
    /\ map = [x \in XS |-> [y \in YS |-> TileWall]]
    /\ rooms = <<>>
    /\ new_room = NoRoom
    /\ objects = <<ObjectNew(0, 0, "@", "player", "WHITE", TRUE)>>
    /\ tunnels = {}
    /\ previous_player_position = <<-1, -1>>
    /\ fov = [transparent |-> {}, walkable |-> {}, in_fov |-> {}]
    /\ fov_recompute = FALSE
    /\ fov_origin = <<-1, -1>>
    /\ compute_called = FALSE
    /\ tick_pos = <<-1, -1>>
    /\ tick = 0
    /\ last_index = <<0, 0>>
    /\ seen = {}

GameVars == <<previous_player_position, fov, fov_recompute, fov_origin,
              compute_called, tick_pos, tick, last_index, seen>>

\* lines 308-321 with failed = true: the candidate is discarded
RejectCandidate ==
    /\ pc = "loop"
    /\ InLoop(attempt, budget)
    /\ \E w \in Sizes, h \in Sizes :
         \E x \in 0 .. (MAP_WIDTH - w - 1), y \in 0 .. (MAP_HEIGHT - h - 1) :
            Failed(RectNew(x, y, w, h), rooms)
    /\ attempt' = attempt + 1
    /\ UNCHANGED <<pc, budget, map, rooms, new_room, objects, tunnels, GameVars>>

\* lines 308-325 with failed = false: the room is carved
AcceptCandidate ==
    /\ pc = "loop"
    /\ InLoop(attempt, budget)
    /\ \E w \in Sizes, h \in Sizes :
         \E x \in 0 .. (MAP_WIDTH - w - 1), y \in 0 .. (MAP_HEIGHT - h - 1) :
            /\ ~Failed(RectNew(x, y, w, h), rooms)
            /\ new_room' = RectNew(x, y, w, h)
            /\ map' = CreateRoom(RectNew(x, y, w, h), map)
    /\ pc' = "objects"
    /\ UNCHANGED <<budget, attempt, rooms, objects, tunnels, GameVars>>

\* the x range closed at room.x2
MonsterChoicesClosed(room) ==
    {ObjectNew(x, y, "o", "orc", "DESATURATED_GREEN", TRUE) :
        x \in (room.x1 + 1) .. room.x2, y \in room.y1 .. (room.y2 - 1)}
    \cup
    {ObjectNew(x, y, "T", "troll", "DARKER_GREEN", TRUE) :
        x \in (room.x1 + 1) .. room.x2, y \in room.y1 .. (room.y2 - 1)}

\* place_objects: the monsters one call may append for `room`
MonsterChoices(room) ==
    {ObjectNew(x, y, "o", "orc", "DESATURATED_GREEN", TRUE) :
        x \in (room.x1 + 1) .. (room.x2 - 1), y \in room.y1 .. (room.y2 - 1)}
    \cup
    {ObjectNew(x, y, "T", "troll", "DARKER_GREEN", TRUE) :
        x \in (room.x1 + 1) .. (room.x2 - 1), y \in room.y1 .. (room.y2 - 1)}

\* lines 357-371: place_objects(new_room, objects), followed while the
\* objects Vec stays within `cap` elements
PlaceObjectsUpTo(cap) ==
    /\ pc = "objects"
    /\ \E num_monsters \in 0 .. MAX_ROOM_MONSTERS :
         /\ Len(objects) + num_monsters <= cap
         /\ \E ms \in [1 .. num_monsters -> MonsterChoices(new_room)] :
               objects' = objects \o ms
    /\ pc' = "center"
    /\ UNCHANGED <<budget, attempt, map, rooms, new_room, tunnels, GameVars>>

\* line 327: place_objects(new_room, objects)
PlaceObjects == PlaceObjectsUpTo(MaxObjects)

\* line 327, with room in the Vec for a full call's monsters
PlaceMonsters == PlaceObjectsUpTo(MaxPlaced)

\* lines 329-334 and 350: the first accepted room receives the player
FirstRoom ==
    /\ pc = "center"
    /\ rooms = <<>>
    /\ objects' = [objects EXCEPT ![PLAYER + 1] =
                      SetPos(@, Center(new_room)[1], Center(new_room)[2])]
    /\ rooms' = Append(rooms, new_room)
    /\ attempt' = attempt + 1
    /\ pc' = "loop"
    /\ new_room' = NoRoom
    /\ UNCHANGED <<budget, map, tunnels, GameVars>>

\* lines 335-350: a later room is joined to the previous one
ConnectRooms ==
    /\ pc = "center"
    /\ rooms # <<>>
    /\ \E coin \in BOOLEAN :
         /\ map' = Connect(Center(rooms[Len(rooms)]), Center(new_room), coin, map)
         /\ tunnels' = tunnels \cup
                DoglegTiles(Center(rooms[Len(rooms)]), Center(new_room), coin)
    /\ rooms' = Append(rooms, new_room)
    /\ attempt' = attempt + 1
    /\ pc' = "loop"
    /\ new_room' = NoRoom
    /\ UNCHANGED <<budget, objects, GameVars>>

\* ------------------------------------------------------------------ fov
Tiles == XS \X YS

\* lines 205-214: tcod.fov.set(x, y, !block_sight, !blocked)
FovSet(m) ==
    [transparent |-> {t \in Tiles : ~m[t[1]][t[2]].block_sight},
     walkable    |-> {t \in Tiles : ~m[t[1]][t[2]].blocked},
     in_fov      |-> {}]

Abs(a) == IF a >= 0 THEN a ELSE -a

\* a / n rounded to the nearest integer, n > 0
Round(a, n) == IF a >= 0 THEN (2 * a + n) \div (2 * n)
                         ELSE -((2 * (-a) + n) \div (2 * n))

\* the cells strictly between the origin and t on the ray from the origin to t
Between(ox, oy, t) ==
    LET dx == t[1] - ox
        dy == t[2] - oy
        n  == Max(Abs(dx), Abs(dy))
    IN  {<<ox + Round(i * dx, n), oy + Round(i * dy, n)>> : i \in 1 .. (n - 1)}

\* compute_fov belongs to the external library (tcod), whose code is not part
\* of the repository. It is modelled after FovAlgorithm::Basic: a cell is in
\* the field when it is within the radius and the ray from the origin reaches
\* it through transparent cells; an opaque cell that stops a ray is lit when
\* light_walls is set. The origin is always in the field.
ComputeFov(f, ox, oy, radius, light_walls) ==
    {t \in Tiles :
        \/ t = <<ox, oy>>
        \/ /\ (t[1] - ox) * (t[1] - ox) + (t[2] - oy) * (t[2] - oy) <= radius * radius
           /\ Between(ox, oy, t) \subseteq f.transparent
           /\ (light_walls \/ t \in f.transparent)}

\* lines 197-214: make_map has returned; the FovMap is filled from the map
FinishMap ==
    /\ pc = "loop"
    /\ ~InLoop(attempt, budget)
    /\ previous_player_position' = <<-1, -1>>
    /\ fov' = FovSet(map)
    /\ pc' = "render"
    /\ UNCHANGED <<budget, attempt, map, rooms, new_room, objects, tunnels,
                   fov_recompute, fov_origin, compute_called, tick_pos, tick,
                   last_index, seen>>

\* ----------------------------------------------------------- render_all
\* explored follows the current visibility
ExploreVisibleOnly(tile, visible) == [tile EXCEPT !.explored = visible]

\* a visible tile rebuilt from Tile::empty() with explored set
ExploreAsFloor(tile, visible) ==
    IF visible THEN [TileEmpty EXCEPT !.explored = TRUE] ELSE tile

\* explored set for every tile drawn
ExploreAlways(tile, visible) == [tile EXCEPT !.explored = TRUE]

\* lines 254-257
Explore(tile, visible) == IF visible THEN [tile EXCEPT !.explored = TRUE] ELSE tile

\* the field recomputed on every tick
FovRecomputeAlways(previous, player) == TRUE

\* the positions compared on x alone
FovRecomputeOnX(previous, player) == previous[1] # player.x

\* the sentinel read as "no previous position", not as a move
FovRecomputeAfterMove(previous, player) ==
    previous # <<-1, -1>> /\ previous # Pos(player)

\* line 220
FovRecompute(previous, player) == previous # Pos(player)

\* lines 234-263: render_all's effect on the FovMap and on the map's tiles;
\* `called` tells whether compute_fov ran
RenderAll(f, m, objs, recompute) ==
    LET player == objs[PLAYER + 1]
        field  == IF recompute
                  THEN ComputeFov(f, player.x, player.y, TORCH_RADIUS, FOV_LIGHT_WALLS)
                  ELSE f.in_fov
    IN  [fov    |-> [f EXCEPT !.in_fov = field],
         map    |-> [x \in XS |-> [y \in YS |-> Explore(m[x][y], <<x, y>> \in field)]],
         called |-> recompute]

\* lines 217-225: one iteration of the main loop up to the key wait
Render ==
    /\ pc = "render"
    /\ tick < MaxTicks
    /\ LET recompute == FovRecompute(previous_player_position, objects[PLAYER + 1])
           r         == RenderAll(fov, map, objects, recompute)
       IN  /\ fov_recompute' = recompute
           /\ fov' = r.fov
           /\ map' = r.map
           /\ compute_called' = r.called
           /\ fov_origin' = IF r.called THEN Pos(objects[PLAYER + 1]) ELSE fov_origin
           /\ seen' = seen \cup r.fov.in_fov
    /\ previous_player_position' = Pos(objects[PLAYER + 1])
    /\ tick_pos' = Pos(objects[PLAYER + 1])
    /\ tick' = tick + 1
    /\ pc' = "keys"
    /\ UNCHANGED <<budget, attempt, rooms, new_room, objects, tunnels, last_index>>

\* line 217: the window was closed
WindowClosed ==
    /\ pc = "render"
    /\ pc' = "exit"
    /\ UNCHANGED <<budget, attempt, map, rooms, new_room, objects, tunnels,
                   GameVars>>

\* ---------------------------------------------------------- handle_keys
\* Vec indexing by `i as usize`: a negative i32 becomes a value above every
\* length, so the access is inside the Vec exactly when 0 <= i < len
InVec(i, len) == 0 <= i /\ i < len

\* line 110: the index pair is inside game.map
IndexOk(ix, iy) == InVec(ix, MAP_WIDTH) /\ InVec(iy, MAP_HEIGHT)

\* the move made whatever the tile
MoveByUnchecked(self, dx, dy, m) ==
    [self EXCEPT !.x = self.x + dx, !.y = self.y + dy]

\* lines 109-114, for an index pair inside game.map
MoveBy(self, dx, dy, m) ==
    IF ~m[self.x + dx][self.y + dy].blocked
    THEN [self EXCEPT !.x = self.x + dx, !.y = self.y + dy]
    ELSE self

Delta(key) ==
    CASE key = "Up"    -> <<0, -1>>
      [] key = "Down"  -> <<0, 1>>
      [] key = "Left"  -> <<-1, 0>>
      [] key = "Right" -> <<1, 0>>

MoveKeys == {"Up", "Down", "Left", "Right"}

\* lines 284-287: an arrow key, the indexed tile inside the map
KeyMove ==
    /\ pc = "keys"
    /\ \E key \in MoveKeys :
         LET player == objects[PLAYER + 1]
             ix     == player.x + Delta(key)[1]
             iy     == player.y + Delta(key)[2]
         IN  /\ IndexOk(ix, iy)
             /\ last_index' = <<ix, iy>>
             /\ objects' = [objects EXCEPT ![PLAYER + 1] =
                               MoveBy(@, Delta(key)[1], Delta(key)[2], map)]
    /\ pc' = "render"
    /\ UNCHANGED <<budget, attempt, map, rooms, new_room, tunnels,
                   previous_player_position, fov, fov_recompute, fov_origin,
                   compute_called, tick_pos, tick, seen>>

\* lines 284-287 and 110: an arrow key, the index outside game.map: the
\* indexing panics and the program ends
KeyMovePanic ==
    /\ pc = "keys"
    /\ \E key \in MoveKeys :
         LET player == objects[PLAYER + 1]
             ix     == player.x + Delta(key)[1]
             iy     == player.y + Delta(key)[2]
         IN  /\ ~IndexOk(ix, iy)
             /\ last_index' = <<ix, iy>>
    /\ pc' = "panic"
    /\ UNCHANGED <<budget, attempt, map, rooms, new_room, objects, tunnels,
                   previous_player_position, fov, fov_recompute, fov_origin,
                   compute_called, tick_pos, tick, seen>>

\* lines 288-295: Alt+Enter toggles the window's fullscreen mode, which is
\* state of the console library and no state of the game
KeyFullscreen ==
    /\ pc = "keys"
    /\ pc' = "render"
    /\ UNCHANGED <<budget, attempt, map, rooms, new_room, objects, tunnels, GameVars>>

\* line 296 and 228-230: Escape leaves the loop
KeyEscape ==
    /\ pc = "keys"
    /\ pc' = "exit"
    /\ UNCHANGED <<budget, attempt, map, rooms, new_room, objects, tunnels,
                   GameVars>>

\* line 297: any other key
KeyOther ==
    /\ pc = "keys"
    /\ pc' = "render"
    /\ UNCHANGED <<budget, attempt, map, rooms, new_room, objects, tunnels,
                   GameVars>>

\* make_map alone: the generator from its first iteration to its return
NextGen ==
    \/ RejectCandidate
    \/ AcceptCandidate
    \/ PlaceObjects
    \/ FirstRoom
    \/ ConnectRooms

SpecGen == Init /\ [][NextGen]_vars

\* make_map with at most MaxPlaceRooms iterations and place_objects free to
\* append all the monsters of a call
NextPlace ==
    \/ RejectCandidate
    \/ AcceptCandidate
    \/ PlaceMonsters
    \/ FirstRoom
    \/ ConnectRooms

InitPlace == Init /\ budget <= MaxPlaceRooms

SpecPlace == InitPlace /\ [][NextPlace]_vars

\* main up to the head of its loop: make_map and the filling of the FovMap
NextSetup ==
    \/ RejectCandidate
    \/ AcceptCandidate
    \/ PlaceObjects
    \/ FirstRoom
    \/ ConnectRooms
    \/ FinishMap

SpecSetup == Init /\ [][NextSetup]_vars

\* the same, with the progress of sequential code: make_map's loop body has
\* no blocking call, so a step that can be taken is taken
SpecSetupFair == SpecSetup /\ WF_vars(NextSetup)

\* the program: main
Next ==
    \/ RejectCandidate
    \/ AcceptCandidate
    \/ PlaceObjects
    \/ FirstRoom
    \/ ConnectRooms
    \/ FinishMap
    \/ Render
    \/ WindowClosed
    \/ KeyMove
    \/ KeyMovePanic
    \/ KeyFullscreen
    \/ KeyEscape
    \/ KeyOther

Spec == Init /\ [][Next]_vars

\* ================================================================ claims
\* make_map has run its N iterations
GenDone == pc = "loop" /\ attempt = budget

IsFloor(t) == ~t.blocked /\ ~t.block_sight

IsWall(t) == t.blocked /\ t.block_sight

\* the closed intervals of a and b overlap on both axes
ClosedOverlap(a, b) ==
    /\ a.x1 <= b.x2 /\ b.x1 <= a.x2
    /\ a.y1 <= b.y2 /\ b.y1 <= a.y2

\* C1: at every point of make_map, no two distinct rooms of the accepted list
\* intersect under the closed-interval test, in either argument order.
C1_RoomsPairwiseDisjoint ==
    \A i \in 1 .. Len(rooms), j \in 1 .. Len(rooms) :
        i # j => ~ClosedOverlap(rooms[i], rooms[j])

\* generation has returned with three accepted rooms
C1_Witness == GenDone /\ Len(rooms) = 3

\* C4: at the end of generation every tile strictly inside an accepted room is
\* floor, and every tile on the room's border is wall unless a corridor was
\* carved over it.
C4_InteriorFloorBorderWall ==
    GenDone =>
        \A i \in 1 .. Len(rooms) :
            LET R == rooms[i] IN
            \A x \in R.x1 .. R.x2, y \in R.y1 .. R.y2 :
                IF R.x1 < x /\ x < R.x2 /\ R.y1 < y /\ y < R.y2
                THEN ~map[x][y].blocked
                ELSE <<x, y>> \notin tunnels => IsWall(map[x][y])

\* a finished map with a room whose border is crossed by a corridor
C4_Witness ==
    /\ GenDone
    /\ \E i \in 1 .. Len(rooms) :
          \E x \in rooms[i].x1 .. rooms[i].x2, y \in rooms[i].y1 .. rooms[i].y2 :
              /\ (x = rooms[i].x1 \/ x = rooms[i].x2 \/ y = rooms[i].y1 \/ y = rooms[i].y2)
              /\ <<x, y>> \in tunnels
              /\ ~map[x][y].blocked

\* the dogleg from (px, py) to (nx, ny): horizontal first when hfirst
C5_Path(px, py, nx, ny, hfirst) ==
    IF hfirst
    THEN {<<x, py>> : x \in Min(px, nx) .. Max(px, nx)}
         \cup {<<nx, y>> : y \in Min(py, ny) .. Max(py, ny)}
    ELSE {<<px, y>> : y \in Min(py, ny) .. Max(py, ny)}
         \cup {<<x, ny>> : x \in Min(px, nx) .. Max(px, nx)}

\* the truncated midpoint of r, written out
C5_Mid(r) == <<(r.x1 + r.x2) \div 2, (r.y1 + r.y2) \div 2>>

\* C5: the connection step carves one of the two doglegs between the previous
\* room's centre and the new room's centre: every tile of that path is floor
\* afterwards and every other tile is unchanged.
C5_ConnectionCarvesOneDogleg ==
    [][(pc = "center" /\ rooms # <<>>) =>
         LET p == C5_Mid(rooms[Len(rooms)])
             n == C5_Mid(new_room)
         IN  \E hfirst \in BOOLEAN :
                \A x \in XS, y \in YS :
                    IF <<x, y>> \in C5_Path(p[1], p[2], n[1], n[2], hfirst)
                    THEN IsFloor(map'[x][y])
                    ELSE map'[x][y] = map[x][y]]_vars

\* a connection whose endpoints arrive in descending order on the x axis and
\* that turned a wall tile into floor
C5_Witness ==
    /\ pc = "loop"
    /\ Len(rooms) >= 2
    /\ C5_Mid(rooms[2])[1] < C5_Mid(rooms[1])[1]
    /\ C5_Mid(rooms[2])[2] # C5_Mid(rooms[1])[2]
    /\ \E t \in tunnels :
          \A i \in 1 .. Len(rooms) :
              ~(rooms[i].x1 < t[1] /\ t[1] < rooms[i].x2
                /\ rooms[i].y1 < t[2] /\ t[2] < rooms[i].y2)

\* C6: once a room has been accepted the player stands at the truncated
\* midpoint of the first accepted room, through every later attempt.
C6_PlayerAtFirstRoomCenter ==
    rooms # <<>> =>
        /\ 2 * objects[PLAYER + 1].x <= rooms[1].x1 + rooms[1].x2
        /\ rooms[1].x1 + rooms[1].x2 <= 2 * objects[PLAYER + 1].x + 1
        /\ 2 * objects[PLAYER + 1].y <= rooms[1].y1 + rooms[1].y2
        /\ rooms[1].y1 + rooms[1].y2 <= 2 * objects[PLAYER + 1].y + 1

\* generation has returned with a second room accepted and a candidate
\* rejected after a first room of odd width
C6_Witness ==
    /\ GenDone
    /\ Len(rooms) = 2
    /\ budget = 3
    /\ (rooms[1].x1 + rooms[1].x2) % 2 = 1

\* C10: with N >= 1 the first attempt is accepted, and the number of accepted
\* rooms at return is between 1 and N.
C10_AtLeastOneRoom ==
    /\ (pc = "loop" /\ attempt >= 1) => Len(rooms) >= 1
    /\ (GenDone /\ budget >= 1) => (1 <= Len(rooms) /\ Len(rooms) <= budget)

\* generation has returned with a single room out of three attempts
C10_Witness == GenDone /\ budget = 3 /\ Len(rooms) = 1

\* C2: a tile's explored flag, once true, stays true through every step of the
\* program.
C2_ExploredMonotonic ==
    [][\A x \in XS, y \in YS : map[x][y].explored => map'[x][y].explored]_vars

\* after a later tick a tile is explored although it is outside the field
C2_Witness ==
    /\ pc = "keys"
    /\ tick >= 2
    /\ \E x \in XS, y \in YS : map[x][y].explored /\ <<x, y>> \notin fov.in_fov

\* C3: on every tick compute_fov is called exactly when the player's position
\* differs from the position recorded at the previous tick (before the first
\* tick: the sentinel (-1, -1)).
C3_ComputeIffMoved ==
    [][(pc = "render" /\ pc' = "keys") =>
          (compute_called' = (Pos(objects[PLAYER + 1]) # tick_pos))]_vars

\* a tick without compute_fov, after a tick at which the player had moved
C3_Witness ==
    /\ pc = "keys"
    /\ tick = 3
    /\ ~compute_called
    /\ fov_origin # <<-1, -1>>
    /\ rooms # <<>>
    /\ fov_origin # C5_Mid(rooms[1])

\* C7: with N = 0 make_map returns an all-wall, unexplored grid, no room and no
\* monster, and leaves the player at the position main gave it.
C7_ZeroBudget ==
    (budget = 0 /\ pc = "render" /\ tick = 0) =>
        /\ \A x \in XS, y \in YS :
              /\ map[x][y].blocked
              /\ map[x][y].block_sight
              /\ ~map[x][y].explored
        /\ rooms = <<>>
        /\ Len(objects) = 1
        /\ objects[PLAYER + 1].x = 0
        /\ objects[PLAYER + 1].y = 0

\* make_map has returned to main from a run with N = 0
C7_Witness == budget = 0 /\ pc = "render" /\ tick = 0 /\ fov.walkable = {}

C9_WallOrFloor ==
    \A x \in XS, y \in YS : map[x][y].blocked = map[x][y].block_sight

\* the main loop runs on a map with explored floor and explored wall
C9_Witness ==
    /\ pc = "keys"
    /\ \E x \in XS, y \in YS : IsFloor(map[x][y]) /\ map[x][y].explored
    /\ \E x \in XS, y \in YS : IsWall(map[x][y]) /\ map[x][y].explored

\* the tiles next to t along the two axes
C11_Neighbours(t) ==
    {<<t[1] + 1, t[2]>>, <<t[1] - 1, t[2]>>, <<t[1], t[2] + 1>>, <<t[1], t[2] - 1>>}

\* the non-blocked tiles of the map
C11_Floor == {t \in XS \X YS : ~map[t[1]][t[2]].blocked}

RECURSIVE C11_Grow(_)
\* the floor tiles joined to the set S by 4-connected paths of floor tiles
C11_Grow(S) ==
    LET N == S \cup {t \in C11_Floor : C11_Neighbours(t) \cap S # {}}
    IN  IF N = S THEN S ELSE C11_Grow(N)

C11_Reach(t) == IF t \in C11_Floor THEN C11_Grow({t}) ELSE {}

\* C11: in every state of generation each accepted room after the first has
\* its centre joined to the centre of the room accepted before it by a
\* 4-connected path of floor tiles, and every accepted room's centre is joined
\* in the same way to the player's position.
C11_RoomsChained ==
    /\ \A i \in 2 .. Len(rooms) : C5_Mid(rooms[i]) \in C11_Reach(C5_Mid(rooms[i - 1]))
    /\ \A i \in 1 .. Len(rooms) : C5_Mid(rooms[i]) \in C11_Reach(Pos(objects[PLAYER + 1]))

\* generation has returned with three rooms, the third carved after the
\* corridor between the first two
C11_Witness ==
    /\ GenDone
    /\ Len(rooms) = 3
    /\ C5_Mid(rooms[1])[2] # C5_Mid(rooms[2])[2]
    /\ C5_Mid(rooms[2])[1] # C5_Mid(rooms[3])[1]

\* C12: after every tick a tile's explored flag is set exactly when
\* is_in_fov has reported the tile visible on that tick or on an earlier one.
C12_ExploredIffSeen ==
    tick >= 1 => \A t \in Tiles : map[t[1]][t[2]].explored <=> t \in seen

\* two ticks are over, a tile seen on the first is outside the field now and
\* a tile has never been seen
C12_Witness ==
    /\ tick >= 2
    /\ pc = "keys"
    /\ seen \ fov.in_fov # {}
    /\ Tiles \ seen # {}
    /\ fov.in_fov # {}

\* C13: the player's position is never the sentinel (-1, -1), the first
\* render_all calls compute_fov, and so every is_in_fov query of render_all
\* comes after a compute_fov call.
C13_FirstTickComputes ==
    /\ Pos(objects[PLAYER + 1]) # <<-1, -1>>
    /\ tick = 1 => (fov_recompute /\ compute_called)
    /\ tick >= 1 => fov_origin # <<-1, -1>>
    /\ tick = 0 => seen = {}

\* the first render_all is over, after a generation that accepted a room
C13_Witness ==
    /\ tick = 1
    /\ pc = "keys"
    /\ rooms # <<>>
    /\ compute_called
    /\ fov_origin = Pos(objects[PLAYER + 1])
    /\ seen # {}

\* tile by tile, the two maps differ in nothing but explored
C14_SameButExplored(m1, m2) ==
    \A t \in Tiles :
        /\ m1[t[1]][t[2]].blocked = m2[t[1]][t[2]].blocked
        /\ m1[t[1]][t[2]].block_sight = m2[t[1]][t[2]].block_sight

\* C14: once make_map has returned, no step changes a tile's blocked or
\* block_sight; a key step (move_by included, rejected or not) changes no tile
\* at all and no object but the player, of which nothing but x and y; a
\* render_all step changes no object and of the tiles only explored.
C14_PlayFrame ==
    [][/\ pc \in {"render", "keys"} => C14_SameButExplored(map, map')
       /\ pc = "keys" =>
            /\ map' = map
            /\ objects' =
                 [objects EXCEPT ![PLAYER + 1] =
                    SetPos(@, objects'[PLAYER + 1].x, objects'[PLAYER + 1].y)]
       /\ pc = "render" => objects' = objects]_vars

\* after two render_all calls and an accepted move, the latest move_by was
\* rejected by a blocked tile; a monster is in the list
C14_Witness ==
    /\ pc = "render"
    /\ tick >= 2
    /\ Len(objects) = 2
    /\ rooms # <<>>
    /\ Pos(objects[PLAYER + 1]) # C5_Mid(rooms[1])
    /\ last_index # Pos(objects[PLAYER + 1])
    /\ map[last_index[1]][last_index[2]].blocked

\* C15: a place_objects call keeps the objects already in the Vec and appends
\* between 0 and MAX_ROOM_MONSTERS objects, each with room.x1 + 1 <= x < room.x2
\* and room.y1 <= y < room.y2 for the accepted room; no other step of make_map,
\* a rejected candidate's iteration included, changes the length of the Vec.
C15_MonstersPerRoom ==
    [][/\ pc = "objects" =>
            /\ Len(objects') - Len(objects) \in 0 .. MAX_ROOM_MONSTERS
            /\ SubSeq(objects', 1, Len(objects)) = objects
            /\ \A i \in (Len(objects) + 1) .. Len(objects') :
                 /\ new_room.x1 + 1 <= objects'[i].x
                 /\ objects'[i].x < new_room.x2
                 /\ new_room.y1 <= objects'[i].y
                 /\ objects'[i].y < new_room.y2
       /\ pc # "objects" => Len(objects') = Len(objects)
       /\ (pc = "loop" /\ pc' = "loop") => objects' = objects]_vars

\* make_map has returned after one rejected candidate and one accepted room
\* that received MAX_ROOM_MONSTERS monsters, one of them with y = room.y1 and
\* one with x = room.x2 - 1
C15_Witness ==
    /\ GenDone
    /\ budget = 2
    /\ Len(rooms) = 1
    /\ Len(objects) = 1 + MAX_ROOM_MONSTERS
    /\ \E i \in 2 .. Len(objects) : objects[i].y = rooms[1].y1
    /\ \E i \in 2 .. Len(objects) : objects[i].x = rooms[1].x2 - 1

\* C16: when make_map has returned, every monster stands on a tile that is
\* not blocked.
C16_MonstersOnFloor ==
    GenDone =>
        \A i \in 2 .. Len(objects) : ~map[objects[i].x][objects[i].y].blocked

\* C17: once make_map has accepted a room the player stands on a tile that is
\* not blocked, in every state that follows; a key step leaves the player in
\* place or moves it by one tile along one axis onto the tile move_by indexed,
\* which is not blocked, and a move_by whose tile is blocked leaves it in place.
C17_PlayerOnFloor ==
    /\ [](rooms # <<>> =>
            /\ IndexOk(objects[PLAYER + 1].x, objects[PLAYER + 1].y)
            /\ ~map[objects[PLAYER + 1].x][objects[PLAYER + 1].y].blocked)
    /\ [][(pc = "keys" /\ rooms # <<>>) =>
            LET from == Pos(objects[PLAYER + 1])
                to   == Pos(objects'[PLAYER + 1])
            IN  /\ to # from =>
                     /\ to = last_index'
                     /\ Abs(to[1] - from[1]) + Abs(to[2] - from[2]) = 1
                     /\ ~map[to[1]][to[2]].blocked
                /\ (pc' = "render" /\ last_index' # from /\ to = from) =>
                     \/ last_index' = last_index
                     \/ map[last_index'[1]][last_index'[2]].blocked]_vars

\* two rooms were accepted, the player has left the spot make_map gave it and
\* the latest move_by moved it
C17_Witness ==
    /\ pc = "render"
    /\ tick >= 2
    /\ Len(rooms) >= 2
    /\ Pos(objects[PLAYER + 1]) # C5_Mid(rooms[1])
    /\ last_index = Pos(objects[PLAYER + 1])

\* C18: make_map returns, and returns only after exactly N iterations: the
\* iteration counter never passes N, every arrival at the loop head has
\* completed exactly one iteration, and main goes on only when the counter
\* is N. The iteration of a rejected candidate changes neither the map, the
\* rooms, the objects nor the player's position.
C18_ExactlyNAttempts ==
    /\ [](attempt \in 0 .. budget)
    /\ [][/\ budget' = budget
          /\ pc' = "loop" => attempt' = attempt + 1
          /\ pc' # "loop" => attempt' = attempt
          /\ pc' = "render" => attempt = budget
          /\ (pc = "loop" /\ pc' = "loop") =>
                (map' = map /\ rooms' = rooms /\ objects' = objects)]_vars
    /\ <>(pc = "render" /\ attempt = budget)

\* make_map has returned after three iterations of which at least one
\* accepted a room and at least one rejected its candidate
C18_Witness ==
    /\ pc = "render"
    /\ budget = MAX_ROOMS
    /\ attempt = MAX_ROOMS
    /\ rooms # <<>>
    /\ Len(rooms) < MAX_ROOMS

\* C19: whenever render_all has queried is_in_fov, the origin of the latest
\* compute_fov call is the position the player had at that render_all call,
\* which is still the player's position while the key is awaited.
C19_OriginIsPlayer ==
    /\ tick >= 1 => fov_origin = tick_pos
    /\ pc = "keys" => fov_origin = Pos(objects[PLAYER + 1])

\* the latest render_all did not recompute the field, which was computed on
\* an earlier tick after the player had moved
C19_Witness ==
    /\ pc = "keys"
    /\ tick >= 3
    /\ ~compute_called
    /\ rooms # <<>>
    /\ fov_origin # C5_Mid(rooms[1])
    /\ fov_origin = Pos(objects[PLAYER + 1])

\* C20: every tile that is not blocked has 1 <= x <= MAP_WIDTH - 2 and
\* 1 <= y <= MAP_HEIGHT - 2; and once make_map has accepted a room, every
\* index pair move_by uses on the map is inside it: the indexing never panics.
C20_EdgeIsWall ==
    /\ \A t \in Tiles :
         ~map[t[1]][t[2]].blocked =>
            /\ 1 <= t[1] /\ t[1] <= MAP_WIDTH - 2
            /\ 1 <= t[2] /\ t[2] <= MAP_HEIGHT - 2
    /\ rooms # <<>> =>
         /\ pc # "panic"
         /\ IndexOk(last_index[1], last_index[2])
         /\ \A key \in MoveKeys :
              IndexOk(objects[PLAYER + 1].x + Delta(key)[1],
                      objects[PLAYER + 1].y + Delta(key)[2])

\* a key is awaited with the player on a floor tile next to the map's edge,
\* after a move_by that indexed a tile of the edge
C20_Witness ==
    /\ pc = "keys"
    /\ rooms # <<>>
    /\ tick >= 2
    /\ objects[PLAYER + 1].x = MAP_WIDTH - 2
    /\ last_index = <<MAP_WIDTH - 1, objects[PLAYER + 1].y>>
    /\ \E t \in Tiles : t[2] = 1 /\ ~map[t[1]][t[2]].blocked

====
